---- MODULE Spec2Model ----
(***************************************************************************)
(* Model of .github/ci_support/upload_sonatype_snapshot_bundles.js.        *)
(*                                                                         *)
(* The script is a single sequential process.  Its state is the process    *)
(* environment, the file system it touches, the position of the process    *)
(* (pc), the stack of live withTempDir calls and the arguments handed to   *)
(* the external tools (mktemp, unzip, mvn, rm).  The external tools are    *)
(* the environment of the program: each invocation either succeeds or      *)
(* fails, and spawnSync returns in both cases without throwing.            *)
(*                                                                         *)
(* A temporary directory is named by a positive number (the unique name    *)
(* printed by `mktemp -d`).  NoPath stands for the empty string that       *)
(* `String(stdout).trim()` yields when mktemp printed nothing; the path    *)
(* `${tmpPath}/x` is then "/x", a file of the root directory.              *)
(***************************************************************************)
EXTENDS Integers, Sequences, FiniteSets, TLC

VARIABLES
    env,            \* process.env restricted to the two variables read
    pc,             \* position of the process
    idx,            \* position of `for (const id of artifactIds)`, 1-based
    stack,          \* tmpPath of every withTempDir call that is executing
    created,        \* directories mktemp created during the run
    dirs,           \* directories that exist on disk
    files,          \* files that exist on disk: path -> content
    jarArgs,        \* the local jarArgs of mavenDeploySnapshotFromBazel
    lastCmd,        \* argument list of the latest `mvn` invocation
    deployed,       \* artifact ids of the `mvn` invocations, in order
    log,            \* steps taken inside the per-artifact scopes, in order
    rmCalls,        \* paths handed to `rm -R`
    unzipStatus,    \* outcome of the latest `unzip` ("none" before the first)
    toolFailed,     \* some unzip or mvn invocation reported a failure
    rmFailed,       \* paths whose `rm -R` reported a failure
    settingsWrites, \* number of completed writes of the settings document
    err             \* the uncaught exception, NoError while there is none

vars == <<env, pc, idx, stack, created, dirs, files, jarArgs, lastCmd,
          deployed, log, rmCalls, unzipStatus, toolFailed, rmFailed,
          settingsWrites, err>>

----------------------------------------------------------------------------
(* Program constants *)

RequiredVars == {"SONATYPE_USERNAME", "SONATYPE_PASSWORD"}

AllArtifactIds ==
    << "closure-compiler",
       "closure-compiler-unshaded",
       "closure-compiler-externs",
       "closure-compiler-main",
       "closure-compiler-parent" >>

\* Number of entries of the artifact list that a run of the model iterates.
MaxArtifacts == 3

artifactIds == SubSeq(AllArtifactIds, 1, MaxArtifacts)

\* new Map([...]) iterates in insertion order
JAR_SUFFIX_BY_MVN_ARG ==
    << [arg |-> "-Dfile",    suffix |-> ""],
       [arg |-> "-Dsources", suffix |-> "-sources"],
       [arg |-> "-Djavadoc", suffix |-> "-javadoc"] >>

Suffixes == {JAR_SUFFIX_BY_MVN_ARG[k].suffix : k \in DOMAIN JAR_SUFFIX_BY_MVN_ARG}

NoPath == 0

NoError == [kind |-> "none"]

NoCmd == << >>

\* content of a settings.xml left behind by somebody else
StaleContent == [id |-> "stale", username |-> "stale", password |-> "stale"]

EnvValue == [n \in RequiredVars |->
                IF n = "SONATYPE_USERNAME" THEN "user" ELSE "secret"]

----------------------------------------------------------------------------
(* Helpers of the script *)

Path(dir, name) == [dir |-> dir, name |-> name]

\* `${tmpPath}/settings.xml`
SettingsPath(tmpPath) == Path(tmpPath, "settings.xml")

\* `${tmpPath}/${artifactId}-1.0-SNAPSHOT` followed by `${suffix}.jar`
FullJarPath(tmpPath, artifactId, suffix) ==
    Path(tmpPath, artifactId \o "-1.0-SNAPSHOT" \o suffix \o ".jar")

\* fs.existsSync
existsSync(fs, path) == path \in DOMAIN fs

\* getEnvOrThrow with the test inverted (val !== undefined)
getEnvOrThrowInverted(e, name) ==
    IF name \in DOMAIN e
    THEN [threw |-> TRUE,
          error |-> [kind |-> "ConfigurationMissing",
                     msg  |-> <<"Environment variable not set: ", name>>]]
    ELSE [threw |-> FALSE, val |-> "undefined"]

\* getEnvOrThrow without the test: process.env[name] used as it is
getEnvOrThrowUnchecked(e, name) ==
    [threw |-> FALSE, val |-> IF name \in DOMAIN e THEN e[name] ELSE "undefined"]

\* getEnvOrThrow(name): the value, or the Error that is thrown
getEnvOrThrow(e, name) ==
    IF name \notin DOMAIN e
    THEN [threw |-> TRUE,
          error |-> [kind |-> "ConfigurationMissing",
                     msg  |-> <<"Environment variable not set: ", name>>]]
    ELSE [threw |-> FALSE, val |-> e[name]]

\* the document written to settings.xml
SettingsDocument(username, password) ==
    [id |-> "snapshot-repo-id", username |-> username, password |-> password]

\* writeFileSync with flag 'w+': truncates an existing file
writeFileSyncOverwrite(fs, path, data) ==
    [threw |-> FALSE, fs |-> (path :> data) @@ fs]

\* fs.writeFileSync(path, data, {flag: 'wx+'}): exclusive creation
writeFileSyncWx(fs, path, data) ==
    IF existsSync(fs, path)
    THEN [threw |-> TRUE,
          error |-> [kind |-> "CreationConflict", msg |-> <<"EEXIST: ", path>>],
          fs    |-> fs]
    ELSE [threw |-> FALSE, fs |-> (path :> data) @@ fs]

\* the loop without the existsSync test
RECURSIVE ResolveFromNoTest(_, _, _, _)
ResolveFromNoTest(fs, tmpPath, artifactId, k) ==
    IF k > Len(JAR_SUFFIX_BY_MVN_ARG) THEN << >>
    ELSE LET entry       == JAR_SUFFIX_BY_MVN_ARG[k]
             fullJarPath == FullJarPath(tmpPath, artifactId, entry.suffix)
         IN  <<[arg |-> entry.arg, path |-> fullJarPath]>>
                \o ResolveFromNoTest(fs, tmpPath, artifactId, k + 1)

\* the loop over JAR_SUFFIX_BY_MVN_ARG, from table entry k on
RECURSIVE ResolveFrom(_, _, _, _)
ResolveFrom(fs, tmpPath, artifactId, k) ==
    IF k > Len(JAR_SUFFIX_BY_MVN_ARG) THEN << >>
    ELSE LET entry       == JAR_SUFFIX_BY_MVN_ARG[k]
             fullJarPath == FullJarPath(tmpPath, artifactId, entry.suffix)
             rest        == ResolveFrom(fs, tmpPath, artifactId, k + 1)
         IN  IF existsSync(fs, fullJarPath)
             THEN <<[arg |-> entry.arg, path |-> fullJarPath]>> \o rest
             ELSE rest

ResolveJarArgs(fs, tmpPath, artifactId) == ResolveFrom(fs, tmpPath, artifactId, 1)

\* the argument list of the `mvn` invocation
DeployArgs(settingsPath, tmpPath, args) ==
    << [arg |-> "deploy:deploy-file"],
       [arg |-> "--settings", path |-> settingsPath],
       [arg |-> "-DgeneratePom", val |-> "false"],
       [arg |-> "-DrepositoryId", val |-> "snapshot-repo-id"],
       [arg |-> "-Durl",
        val |-> "https://oss.sonatype.org/content/repositories/snapshots/"],
       [arg |-> "-DpomFile", path |-> Path(tmpPath, "pom.xml")] >> \o args

\* files that remain after `rm -R dir` succeeded
RemoveTree(fs, dir) ==
    [p \in {q \in DOMAIN fs : q.dir # dir} |-> fs[p]]

\* a loop that skips every other id
NextIndexSkip(k) == k + 2

\* a loop that never advances
NextIndexStay(k) == k

\* the next position of the for..of loop
NextIndex(k) == k + 1

\* top of the withTempDir stack
Top(s) == s[Len(s)]
Pop(s) == SubSeq(s, 1, Len(s) - 1)

----------------------------------------------------------------------------
(* External tools.  spawnSync never throws; a failing tool only reports it. *)

\* the name `mktemp -d` prints for the directory it creates
FreshDir == Cardinality(created) + 1

\* `rm` that leaves the directory in place
RemoveDirKeep(ds, dir) == ds

\* directories left after a successful `rm -R dir`
RemoveDir(ds, dir) == ds \ {dir}

\* withTempDir, lines 123-125: `mktemp -d`, then tmpPath = String(stdout).trim()
withTempDirEnter ==
    \/ /\ created' = created \cup {FreshDir}
       /\ dirs' = dirs \cup {FreshDir}
       /\ stack' = Append(stack, FreshDir)
    \/ /\ stack' = Append(stack, NoPath)      \* mktemp failed: empty stdout
       /\ UNCHANGED <<created, dirs>>

\* withTempDir, lines 129-130: `rm -R tmpPath` after the callback returned
withTempDirExit ==
    LET tmpPath == Top(stack) IN
    /\ rmCalls' = rmCalls \cup {tmpPath}
    /\ stack' = Pop(stack)
    /\ \/ /\ tmpPath \in dirs
          /\ dirs' = RemoveDir(dirs, tmpPath)
          /\ files' = RemoveTree(files, tmpPath)
          /\ UNCHANGED rmFailed
       \/ /\ rmFailed' = rmFailed \cup {tmpPath}  \* rm failed, nothing removed
          /\ UNCHANGED <<dirs, files>>

\* an exception leaves the callback: nothing catches it, every withTempDir
\* call on the stack is abandoned and the process dies
Throw(error) ==
    /\ err' = error
    /\ stack' = << >>
    /\ pc' = "crashed"

----------------------------------------------------------------------------
(* The steps of the script *)

Init ==
    /\ env \in {[n \in D |-> EnvValue[n]] : D \in SUBSET RequiredVars}
    /\ files \in {<< >>, SettingsPath(NoPath) :> StaleContent}
    /\ pc = "main"
    /\ idx = 1
    /\ stack = << >>
    /\ created = {}
    /\ dirs = {}
    /\ jarArgs = << >>
    /\ lastCmd = NoCmd
    /\ deployed = << >>
    /\ log = << >>
    /\ rmCalls = {}
    /\ unzipStatus = "none"
    /\ toolFailed = FALSE
    /\ rmFailed = {}
    /\ settingsWrites = 0
    /\ err = NoError

\* main, line 44: withTempDir(...) creates the settings directory
MainEnter ==
    /\ pc = "main"
    /\ withTempDirEnter
    /\ pc' = "writeSettings"
    /\ UNCHANGED <<env, idx, files, jarArgs, lastCmd, deployed, log, rmCalls,
                   unzipStatus, toolFailed, rmFailed, err,
                   settingsWrites>>

\* main, lines 45-60: the arguments of writeFileSync are evaluated first (the
\* two getEnvOrThrow calls, in order), then the file is created exclusively
WriteSettings ==
    /\ pc = "writeSettings"
    /\ LET settingsPath == SettingsPath(Top(stack))
           username     == getEnvOrThrow(env, "SONATYPE_USERNAME")
           password     == getEnvOrThrow(env, "SONATYPE_PASSWORD")
       IN  IF username.threw
           THEN Throw(username.error) /\ UNCHANGED <<files, settingsWrites>>
           ELSE IF password.threw
           THEN Throw(password.error) /\ UNCHANGED <<files, settingsWrites>>
           ELSE LET res == writeFileSyncWx(files, settingsPath,
                               SettingsDocument(username.val, password.val))
                IN  IF res.threw
                    THEN Throw(res.error) /\ UNCHANGED <<files, settingsWrites>>
                    ELSE /\ files' = res.fs
                         /\ settingsWrites' = settingsWrites + 1
                         /\ pc' = "loop"
                         /\ UNCHANGED <<stack, err>>
    /\ UNCHANGED <<env, idx, created, dirs, jarArgs, lastCmd, deployed, log,
                   rmCalls, unzipStatus, toolFailed, rmFailed>>

\* main, line 69 and mavenDeploySnapshotFromBazel, line 89: the loop takes the
\* next id and withTempDir creates the directory of that artifact
DeployEnter ==
    /\ pc = "loop"
    /\ idx <= Len(artifactIds)
    /\ withTempDirEnter
    /\ pc' = "unzip"
    /\ UNCHANGED <<env, idx, files, jarArgs, lastCmd, deployed, log, rmCalls,
                   unzipStatus, toolFailed, rmFailed, err,
                   settingsWrites>>

\* unzip whose failure is turned into an exception
UnzipThrowing ==
    /\ pc = "unzip"
    /\ LET tmpPath == Top(stack)
           id      == artifactIds[idx]
       IN  \/ /\ tmpPath \in dirs
              /\ \E S \in SUBSET Suffixes :
                    files' = [p \in {FullJarPath(tmpPath, id, s) : s \in S}
                                 |-> "jar"] @@ files
              /\ unzipStatus' = "ok"
              /\ log' = Append(log, [step |-> "extract", id |-> id])
              /\ pc' = "resolve"
              /\ UNCHANGED <<toolFailed, stack, err>>
           \/ /\ unzipStatus' = "failed"
              /\ toolFailed' = TRUE
              /\ Throw([kind |-> "ExtractionFailed", msg |-> <<"unzip: ", id>>])
              /\ UNCHANGED <<files, log>>
    /\ UNCHANGED <<env, idx, created, dirs, jarArgs, lastCmd, deployed,
                   rmCalls, rmFailed,
                   settingsWrites>>

\* lines 90-92: unzip bazel-bin/${artifactId}_bundle.jar -d tmpPath.  A bundle
\* holds any of the three jars; a failed unzip (no archive, non-zero exit, no
\* directory to unpack into) extracts nothing.  Its status is not inspected.
Unzip ==
    /\ pc = "unzip"
    /\ LET tmpPath == Top(stack)
           id      == artifactIds[idx]
       IN  \/ /\ tmpPath \in dirs
              /\ \E S \in SUBSET Suffixes :
                    files' = [p \in {FullJarPath(tmpPath, id, s) : s \in S}
                                 |-> "jar"] @@ files
              /\ unzipStatus' = "ok"
              /\ UNCHANGED toolFailed
           \/ /\ unzipStatus' = "failed"
              /\ toolFailed' = TRUE
              /\ UNCHANGED files
    /\ log' = Append(log, [step |-> "extract", id |-> artifactIds[idx]])
    /\ pc' = "resolve"
    /\ UNCHANGED <<env, idx, stack, created, dirs, jarArgs, lastCmd, deployed,
                   rmCalls, rmFailed, err,
                   settingsWrites>>

\* lines 94-102: collect the classifier arguments of the jars that exist
Resolve ==
    /\ pc = "resolve"
    /\ jarArgs' = ResolveJarArgs(files, Top(stack), artifactIds[idx])
    /\ log' = Append(log, [step |-> "resolve", id |-> artifactIds[idx]])
    /\ pc' = "mvn"
    /\ UNCHANGED <<env, idx, stack, created, dirs, files, lastCmd, deployed,
                   rmCalls, unzipStatus, toolFailed, rmFailed, err,
                   settingsWrites>>

\* lines 104-115: mvn deploy:deploy-file ...; its status is not inspected
Deploy ==
    /\ pc = "mvn"
    /\ lastCmd' = DeployArgs(SettingsPath(stack[1]), Top(stack), jarArgs)
    /\ deployed' = Append(deployed, artifactIds[idx])
    /\ log' = Append(log, [step |-> "deploy", id |-> artifactIds[idx]])
    /\ \E ok \in BOOLEAN : toolFailed' = (toolFailed \/ ~ok)
    /\ pc' = "rmInner"
    /\ UNCHANGED <<env, idx, stack, created, dirs, files, jarArgs, rmCalls,
                   unzipStatus, rmFailed, err,
                   settingsWrites>>

\* the removal issued without waiting for mvn (an asynchronous spawn)
DeployExitEarly ==
    /\ pc \in {"mvn", "rmInner"}
    /\ withTempDirExit
    /\ jarArgs' = << >>
    /\ idx' = NextIndex(idx)
    /\ pc' = "loop"
    /\ UNCHANGED <<env, created, lastCmd, deployed, log, unzipStatus,
                   toolFailed, settingsWrites, err>>

\* the settings document generated again after every artifact
DeployExitRegenerating ==
    /\ pc = "rmInner"
    /\ LET tmpPath == Top(stack) IN
       /\ rmCalls' = rmCalls \cup {tmpPath}
       /\ stack' = Pop(stack)
       /\ files' = (SettingsPath(stack[1]) :>
                       SettingsDocument(env["SONATYPE_USERNAME"],
                                        env["SONATYPE_PASSWORD"]))
                   @@ RemoveTree(files, tmpPath)
       /\ dirs' = RemoveDir(dirs, tmpPath)
    /\ settingsWrites' = settingsWrites + 1
    /\ jarArgs' = << >>
    /\ idx' = NextIndex(idx)
    /\ pc' = "loop"
    /\ UNCHANGED <<env, created, lastCmd, deployed, log, unzipStatus,
                   toolFailed, rmFailed, err>>

\* a failed removal turned into an exception
DeployExitThrowing ==
    /\ pc = "rmInner"
    /\ LET tmpPath == Top(stack) IN
       /\ rmCalls' = rmCalls \cup {tmpPath}
       /\ \/ /\ tmpPath \in dirs
             /\ dirs' = RemoveDir(dirs, tmpPath)
             /\ files' = RemoveTree(files, tmpPath)
             /\ stack' = Pop(stack)
             /\ jarArgs' = << >>
             /\ idx' = NextIndex(idx)
             /\ pc' = "loop"
             /\ UNCHANGED <<rmFailed, err>>
          \/ /\ rmFailed' = rmFailed \cup {tmpPath}
             /\ Throw([kind |-> "CleanupFailed", msg |-> <<"rm: ", tmpPath>>])
             /\ UNCHANGED <<dirs, files, jarArgs, idx>>
    /\ UNCHANGED <<env, created, lastCmd, deployed, log, unzipStatus,
                   toolFailed, settingsWrites>>

\* withTempDir returns to mavenDeploySnapshotFromBazel, which returns to the
\* loop of main
DeployExit ==
    /\ pc = "rmInner"
    /\ withTempDirExit
    /\ jarArgs' = << >>
    /\ idx' = NextIndex(idx)
    /\ pc' = "loop"
    /\ UNCHANGED <<env, created, lastCmd, deployed, log, unzipStatus,
                   toolFailed, err,
                   settingsWrites>>

\* the loop is over, the callback of main returns, withTempDir removes the
\* settings directory and main returns
MainExit ==
    /\ pc = "loop"
    /\ idx > Len(artifactIds)
    /\ withTempDirExit
    /\ pc' = "done"
    /\ UNCHANGED <<env, idx, created, jarArgs, lastCmd, deployed, log,
                   unzipStatus, toolFailed, err,
                   settingsWrites>>

Next ==
    \/ MainEnter
    \/ WriteSettings
    \/ DeployEnter
    \/ Unzip
    \/ Resolve
    \/ Deploy
    \/ DeployExit
    \/ MainExit

Spec == Init /\ [][Next]_vars

\* every spawnSync returns and the interpreter runs the next statement
FairSpec == Spec /\ WF_vars(Next)

----------------------------------------------------------------------------
(* Properties *)

CredentialAbsent == ~(RequiredVars \subseteq DOMAIN env)

Terminated == pc \in {"done", "crashed"}

\* files the run itself wrote (everything but a settings.xml found in place)
WrittenByRun == {p \in DOMAIN files : files[p] # StaleContent}

\* variable names that occur in the message of the uncaught exception
ReportedVars == {err.msg[k] : k \in DOMAIN err.msg} \cap RequiredVars

\* C1: when a required credential is absent, at the moment the
\* ConfigurationMissing error is raised no scratch directory has been created
\* and no file has been written.
C1_FailsBeforeAnyDirectory ==
    err.kind = "ConfigurationMissing" =>
        /\ created = {}
        /\ WrittenByRun = {}

\* C2: when the top-level scope has exited, normally or by an exception,
\* withTempDir has issued the removal of every scratch directory created.
C2_RemovedOnEveryExit ==
    Terminated => created \subseteq rmCalls

\* C3 (as stated): when a run reaches Done, none of the scratch directories
\* created during the run exists on disk.
C3_NoDirectoryLeftAtDone ==
    pc = "done" => created \cap dirs = {}

\* C3 (amended): when a run reaches Done, the removal of every scratch
\* directory created during the run has been issued, and every such directory
\* whose removal did not report a failure no longer exists on disk.
C3_RemovedUnlessRmFailed ==
    pc = "done" =>
        /\ created \subseteq rmCalls
        /\ (created \ rmFailed) \cap dirs = {}

C3_Witness ==
    /\ pc = "done"
    /\ Cardinality(created) = Len(artifactIds) + 1
    /\ rmFailed = {}
    /\ dirs = {}

\* positions of the log that belong to artifact id
StepsOf(id) == {k \in DOMAIN log : log[k].id = id}

\* C4: with both credentials present and the settings document created,
\* the deploy invocations are exactly those of the artifact list, the k-th for
\* the k-th identifier, and the extract/resolve/deploy steps of one artifact
\* are never separated by a step of another artifact.
C4_DeploysInListOrder ==
    /\ Len(deployed) <= Len(artifactIds)
    /\ \A k \in DOMAIN deployed : deployed[k] = artifactIds[k]
    /\ pc = "done" => Len(deployed) = Len(artifactIds)
    /\ \A a, b, c \in DOMAIN log :
          (a < b /\ b < c /\ log[a].id = log[c].id) => log[b].id = log[a].id
    /\ \A k \in DOMAIN deployed :
          {log[j].step : j \in StepsOf(deployed[k])}
              = {"extract", "resolve", "deploy"}
    /\ \A k \in DOMAIN log :
          log[k].step = "deploy" => \E j \in DOMAIN deployed : deployed[j] = log[k].id

C4_Witness ==
    /\ pc = "done"
    /\ deployed = artifactIds
    /\ Len(log) = 3 * Len(artifactIds)

\* C5: the callback of withTempDir only runs with a path that mktemp
\* created: while a callback executes, every path on the withTempDir stack is
\* a created directory.
C5_CallbackOnlyInCreatedDirectory ==
    pc \in {"loop", "unzip", "resolve", "mvn", "rmInner"} =>
        \A k \in DOMAIN stack : stack[k] \in created

\* C6: the ConfigurationMissing error names exactly one variable, and that
\* variable is absent from the environment.
C6_ErrorNamesAbsentVariable ==
    err.kind = "ConfigurationMissing" =>
        /\ Cardinality(ReportedVars) = 1
        /\ ReportedVars \cap DOMAIN env = {}
        /\ err.msg[1] = "Environment variable not set: "

C6_Witness ==
    /\ err.kind = "ConfigurationMissing"
    /\ DOMAIN env = {"SONATYPE_USERNAME"}
    /\ ReportedVars = {"SONATYPE_PASSWORD"}

\* C7: when a required credential is absent, no unzip and no mvn invocation
\* ever occurs and the settings document is never written.
C7_NothingRunsWithoutCredentials ==
    CredentialAbsent =>
        /\ unzipStatus = "none"
        /\ log = << >>
        /\ deployed = << >>
        /\ lastCmd = NoCmd
        /\ WrittenByRun = {}
        /\ pc \in {"main", "writeSettings", "crashed"}

C7_Witness ==
    /\ CredentialAbsent
    /\ pc = "crashed"
    /\ err.kind = "ConfigurationMissing"

\* table entries whose jar exists in the directory of the current artifact
PresentEntries ==
    {k \in DOMAIN JAR_SUFFIX_BY_MVN_ARG :
        FullJarPath(Top(stack), artifactIds[idx], JAR_SUFFIX_BY_MVN_ARG[k].suffix)
            \in DOMAIN files}

ArgNames == [k \in DOMAIN jarArgs |-> jarArgs[k].arg]

\* C8: the resolved classifier arguments are exactly the table entries
\* whose jar exists, each once, in table order (-Dfile, -Dsources, -Djavadoc).
C8_ClassifierArgsMatchExistingFiles ==
    pc = "mvn" =>
        /\ Len(jarArgs) = Cardinality(PresentEntries)
        /\ \A k \in PresentEntries : \E j \in DOMAIN jarArgs :
              /\ jarArgs[j].arg = JAR_SUFFIX_BY_MVN_ARG[k].arg
              /\ jarArgs[j].path.dir = Top(stack)
              /\ jarArgs[j].path \in DOMAIN files
        /\ PresentEntries = {1}       => ArgNames = <<"-Dfile">>
        /\ PresentEntries = {1, 2}    => ArgNames = <<"-Dfile", "-Dsources">>
        /\ PresentEntries = {1, 3}    => ArgNames = <<"-Dfile", "-Djavadoc">>
        /\ PresentEntries = {2, 3}    => ArgNames = <<"-Dsources", "-Djavadoc">>
        /\ PresentEntries = {1, 2, 3} =>
              ArgNames = <<"-Dfile", "-Dsources", "-Djavadoc">>
        /\ PresentEntries = {} => (jarArgs = << >> /\ err = NoError)
        /\ (idx = 1 /\ 2 \in PresentEntries) =>
              \E j \in DOMAIN jarArgs :
                 jarArgs[j].path.name = "closure-compiler-1.0-SNAPSHOT-sources.jar"

C8_Witness ==
    /\ pc = "mvn"
    /\ PresentEntries = {1, 2}
    /\ ArgNames = <<"-Dfile", "-Dsources">>

\* C9: a settings document is only ever created, never overwritten: when a
\* file exists at the target path the write fails with CreationConflict, the
\* file keeps its content and the run ends without any unzip or mvn invocation.
C9_SettingsNeverOverwritten ==
    /\ [](err.kind = "CreationConflict" =>
            /\ pc = "crashed"
            /\ \E p \in DOMAIN files : p.name = "settings.xml" /\ files[p] = StaleContent
            /\ WrittenByRun = {}
            /\ log = << >>
            /\ deployed = << >>)
    /\ [][/\ \A p \in DOMAIN files \cap DOMAIN files' : files'[p] = files[p]
          /\ (/\ pc = "writeSettings"
              /\ ~CredentialAbsent
              /\ SettingsPath(Top(stack)) \in DOMAIN files)
                => (err'.kind = "CreationConflict" /\ files' = files)]_vars

C9_Witness ==
    /\ err.kind = "CreationConflict"
    /\ pc = "crashed"
    /\ files[SettingsPath(NoPath)] = StaleContent

StackSet == {stack[k] : k \in DOMAIN stack}

InArtifactScope == pc \in {"unzip", "resolve", "mvn", "rmInner"}

ClassifierArgs == {JAR_SUFFIX_BY_MVN_ARG[k].arg : k \in DOMAIN JAR_SUFFIX_BY_MVN_ARG}

\* C11: every deploy command is the fixed prefix followed by zero to three
\* classifier tokens; its --settings path is the one settings document of the
\* run, and its -DpomFile path and classifier paths lie inside the scratch
\* directory created for the artifact being deployed, which is not the
\* settings directory.
C11_DeployCommandInsideOwnDirectory ==
    pc = "rmInner" =>
        /\ Len(lastCmd) \in 6..9
        /\ lastCmd[1] = [arg |-> "deploy:deploy-file"]
        /\ lastCmd[2] = [arg |-> "--settings", path |-> SettingsPath(stack[1])]
        /\ lastCmd[3] = [arg |-> "-DgeneratePom", val |-> "false"]
        /\ lastCmd[4] = [arg |-> "-DrepositoryId", val |-> "snapshot-repo-id"]
        /\ lastCmd[5] = [arg |-> "-Durl",
              val |-> "https://oss.sonatype.org/content/repositories/snapshots/"]
        /\ lastCmd[6] = [arg |-> "-DpomFile", path |-> Path(stack[2], "pom.xml")]
        /\ \A k \in 7..Len(lastCmd) :
              /\ lastCmd[k].arg \in ClassifierArgs
              /\ lastCmd[k].path.dir = stack[2]
        /\ stack[2] \in created
        /\ stack[2] # stack[1]

\* the steps logged for artifact id, in the order they were taken
StepSeq(id) ==
    LET sel == SelectSeq(log, LAMBDA e : e.id = id)
    IN  [k \in DOMAIN sel |-> sel[k].step]

ArtifactSteps == <<"extract", "resolve", "deploy">>

\* C12: for each artifact the steps are create, extract, resolve, deploy,
\* remove, in this order: no step of an artifact is taken before its scratch
\* directory scope is entered, the deploy follows the extraction, and the
\* removal is only issued after the deploy.
C12_PerArtifactStepOrder ==
    /\ [](\A k \in DOMAIN artifactIds :
            LET steps == StepSeq(artifactIds[k])
            IN  /\ Len(steps) <= 3
                /\ steps = SubSeq(ArtifactSteps, 1, Len(steps)))
    /\ [][/\ (Len(stack) = 1 /\ Len(stack') = 2) =>
                StepSeq(artifactIds[idx]) = << >>
          /\ (log' # log) => (Len(stack) = 2 /\ stack' = stack /\ dirs' = dirs)
          /\ (rmCalls' # rmCalls /\ Len(stack) = 2) =>
                /\ StepSeq(artifactIds[idx]) = ArtifactSteps
                /\ deployed[Len(deployed)] = artifactIds[idx]
                /\ log[Len(log)] = [step |-> "deploy", id |-> artifactIds[idx]]
          /\ (Len(stack) = 2 /\ Len(stack') = 1) => rmCalls' = rmCalls \cup {stack[2]}
         ]_vars

C12_Witness ==
    /\ pc = "loop"
    /\ idx = 2
    /\ StepSeq(artifactIds[1]) = ArtifactSteps
    /\ 2 \in rmCalls
    /\ 2 \notin dirs

C14_WrittenExactlyOnceInEveryRun ==
    Terminated => settingsWrites = 1

\* C14 (amended): the settings document is written at most once in a run,
\* and exactly once in every run that passes settings generation; that write
\* is complete before the first extraction or deploy, and the document is not
\* rewritten while the artifacts are processed.  A run that aborts with
\* ConfigurationMissing or CreationConflict writes none.
C14_WrittenOnceBeforeArtifacts ==
    /\ settingsWrites <= 1
    /\ (pc = "crashed") = (Terminated /\ settingsWrites = 0)
    /\ (log # << >> \/ deployed # << >> \/ pc = "done") => settingsWrites = 1
    /\ (pc = "loop" \/ InArtifactScope) =>
          /\ settingsWrites = 1
          /\ SettingsPath(stack[1]) \in DOMAIN files
          /\ files[SettingsPath(stack[1])] =
                SettingsDocument(EnvValue["SONATYPE_USERNAME"],
                                 EnvValue["SONATYPE_PASSWORD"])

C14_Witness ==
    /\ pc = "done"
    /\ settingsWrites = 1
    /\ Len(deployed) = Len(artifactIds)
    /\ toolFailed = FALSE

\* C15: a failed removal of a scratch directory does not abort the run: no
\* error is raised, every remaining artifact is still extracted and deployed,
\* and the settings scope still issues its own removal.
C15_CleanupFailureNotFatal ==
    rmFailed # {} =>
        /\ pc # "crashed"
        /\ err = NoError
        /\ pc = "loop" => (Len(stack) = 1 /\ Len(deployed) = idx - 1)
        /\ pc = "done" =>
              /\ deployed = artifactIds
              /\ \A k \in DOMAIN artifactIds :
                    StepSeq(artifactIds[k]) = ArtifactSteps
              /\ created \subseteq rmCalls
              /\ stack = << >>

C15_Witness ==
    /\ pc = "done"
    /\ 2 \in rmFailed
    /\ 2 \in dirs
    /\ 1 \in rmCalls
    /\ deployed = artifactIds

\* C16: every run terminates, in Done or with a fatal error, and the loop
\* never goes back to an artifact nor repeats a step.
C16_RunTerminates ==
    /\ <>Terminated
    /\ [][/\ idx' \in {idx, idx + 1}
          /\ (log' # log) =>
                /\ log' = Append(log, log'[Len(log')])
                /\ \A k \in DOMAIN log : log[k] # log'[Len(log')]
          /\ Terminated => UNCHANGED vars]_vars

C16_Witness ==
    /\ Terminated
    /\ pc = "done"
    /\ idx = Len(artifactIds) + 1
    /\ stack = << >>

\* C17: at the time of every deploy invocation the settings scratch
\* directory and the settings document in it exist, and the settings
\* directory is removed only after the directory of the last artifact.
C17_SettingsDirectoryOutlivesDeploys ==
    /\ pc = "rmInner" =>
          /\ stack[1] \in dirs
          /\ SettingsPath(stack[1]) \in DOMAIN files
          /\ stack[1] \notin rmCalls
    /\ pc = "done" => created \subseteq rmCalls

\* C18: every removal issued by withTempDir targets a directory that the
\* same withTempDir call created.
C18_RemovesOnlyOwnDirectory ==
    rmCalls \subseteq created

====
